---------------------------- MODULE Spec2Model ----------------------------
(***************************************************************************)
(* Model of src/src/id.rs: FullId (a PublicId plus the two private keys)   *)
(* and PublicId (name, public signing key, public encryption key).         *)
(*                                                                         *)
(* A key is identified by a number in Keys; its wire form is the           *)
(* big-endian KeyLen-byte string KeyBytes(k).  A secret key is the record  *)
(* [secret_of |-> k]: the counterpart of public key k.  A name is a number *)
(* in Names, ordered as the XorName byte string it stands for.  sha3_256   *)
(* is an opaque function: the table sha3 is chosen arbitrarily in Init and *)
(* never changes.                                                          *)
(***************************************************************************)
EXTENDS Integers, Sequences, FiniteSets, TLC

\* Bounds of the model.
MaxKey == 1      \* keys are 0..MaxKey (sign and box key spaces alike)
MaxName == 2     \* names are 0..MaxName
KeyLen == 2      \* bytes in the wire form of a public key
MaxDraws == 3    \* the counters of one within_range call saturate here

Keys == 0..MaxKey
Names == 0..MaxName
SecretKeys == [secret_of : Keys]

VARIABLES
    sha3,        \* the hash: [Keys -> Names]
    full_id,     \* the program's FullId, None before one is constructed
    pc,          \* "idle" | "loop" (inside within_range) | "returned"
    start,       \* within_range's arguments
    end,
    sign_keys,   \* within_range's local sign_keys
    draws,       \* public signing keys drawn by this call, in order
    sign_gens,   \* sign::gen_keypair() calls of this call
    enc_gens,    \* box_::gen_keypair() calls of this call
    rejected,    \* attempts of this call that failed the range test
    wire,        \* bytes in flight, None when there are none
    sent,        \* the PublicId that was serialised into wire, if any
    parsed,      \* result of deserialising wire, None before
    ordering,    \* result of comparing full_id's public id with parsed
    replaced     \* whether full_id's public id was replaced since construction

vars == <<sha3, full_id, pc, start, end, sign_keys, draws, sign_gens,
          enc_gens, rejected, wire, sent, parsed, ordering, replaced>>

None == [tag |-> "None"]
Some(v) == [tag |-> "Some", val |-> v]
Ok(v) == [tag |-> "Ok", val |-> v]
Err(e) == [tag |-> "Err", err |-> e]

-----------------------------------------------------------------------------
\* Key generation: the k-th outcome of the generator, a matching pair.
sign_gen_keypair(k) == <<k, [secret_of |-> k]>>
box_gen_keypair(k) == <<k, [secret_of |-> k]>>

\* PublicId::name_from_key
name_from_key(public_sign_key) == sha3[public_sign_key]

\* PublicId::new with the name taken from the wrong key.
PublicId_new_WrongKey(public_encrypt_key, public_sign_key) ==
    [name |-> name_from_key(public_encrypt_key),
     public_sign_key |-> public_sign_key,
     public_encrypt_key |-> public_encrypt_key]

\* PublicId::new
PublicId_new(public_encrypt_key, public_sign_key) ==
    [name |-> name_from_key(public_sign_key),
     public_sign_key |-> public_sign_key,
     public_encrypt_key |-> public_encrypt_key]

\* FullId::with_keys
with_keys(encrypt_keys, sign_keys_arg) ==
    [public_id |-> PublicId_new(encrypt_keys[1], sign_keys_arg[1]),
     private_encrypt_key |-> encrypt_keys[2],
     private_sign_key |-> sign_keys_arg[2]]

\* FullId::new, e and s the generator's outcomes
FullId_new(e, s) ==
    LET encrypt_keys == box_gen_keypair(e)
        sign_keys_new == sign_gen_keypair(s)
    IN  [public_id |-> PublicId_new(encrypt_keys[1], sign_keys_new[1]),
         private_encrypt_key |-> encrypt_keys[2],
         private_sign_key |-> sign_keys_new[2]]

-----------------------------------------------------------------------------
\* Wire form of one key: KeyLen bytes, big-endian.
KeyBytes(k) == [i \in 1..KeyLen |-> (k \div (256 ^ (KeyLen - i))) % 256]

RECURSIVE KeyFromBytes(_)
KeyFromBytes(bs) ==
    IF bs = <<>> THEN 0
    ELSE 256 * KeyFromBytes(SubSeq(bs, 1, Len(bs) - 1)) + bs[Len(bs)]

\* The serialiser's encoding of a pair of keys.
TupleEncode(first, second) == KeyBytes(first) \o KeyBytes(second)

\* The deserialiser's decoding of a pair of keys.
TupleDecode(bytes) ==
    IF Len(bytes) # 2 * KeyLen
    THEN Err("MalformedKeyData")
    ELSE Ok(<<KeyFromBytes(SubSeq(bytes, 1, KeyLen)),
              KeyFromBytes(SubSeq(bytes, KeyLen + 1, 2 * KeyLen))>>)

\* Serialize for PublicId that also writes the name.
serialize_WithName(p) ==
    TupleEncode(p.public_encrypt_key, p.public_sign_key) \o <<p.name>>

\* Serialize for PublicId
serialize(p) == TupleEncode(p.public_encrypt_key, p.public_sign_key)

\* Deserialize for PublicId reading the tuple in the other order.
deserialize_Swapped(bytes) ==
    LET keys == TupleDecode(bytes)
    IN  IF keys.tag = "Err" THEN Err(keys.err)
        ELSE Ok(PublicId_new(keys.val[2], keys.val[1]))

\* Deserialize for PublicId falling back to default keys on an error.
deserialize_Default(bytes) ==
    LET keys == TupleDecode(bytes)
    IN  IF keys.tag = "Err" THEN Ok(PublicId_new(0, 0))
        ELSE Ok(PublicId_new(keys.val[1], keys.val[2]))

\* Deserialize for PublicId
deserialize(bytes) ==
    LET keys == TupleDecode(bytes)
    IN  IF keys.tag = "Err" THEN Err(keys.err)
        ELSE Ok(PublicId_new(keys.val[1], keys.val[2]))

-----------------------------------------------------------------------------
\* derive(PartialOrd, Ord) on PublicId: fields in declaration order.
CmpInt(a, b) == IF a < b THEN "Less" ELSE IF a > b THEN "Greater" ELSE "Equal"

RECURSIVE CmpBytes(_, _)
CmpBytes(a, b) ==
    IF a = <<>> /\ b = <<>> THEN "Equal"
    ELSE IF a = <<>> THEN "Less"
    ELSE IF b = <<>> THEN "Greater"
    ELSE IF Head(a) # Head(b) THEN CmpInt(Head(a), Head(b))
    ELSE CmpBytes(Tail(a), Tail(b))

\* The comparison with the key fields ahead of the name.
PublicIdCmp_KeysFirst(a, b) ==
    LET s == CmpBytes(KeyBytes(a.public_sign_key), KeyBytes(b.public_sign_key))
        e == CmpBytes(KeyBytes(a.public_encrypt_key),
                      KeyBytes(b.public_encrypt_key))
    IN  IF s # "Equal" THEN s
        ELSE IF e # "Equal" THEN e
        ELSE CmpInt(a.name, b.name)

PublicIdCmp(a, b) ==
    LET n == CmpInt(a.name, b.name)
        s == CmpBytes(KeyBytes(a.public_sign_key), KeyBytes(b.public_sign_key))
        e == CmpBytes(KeyBytes(a.public_encrypt_key),
                      KeyBytes(b.public_encrypt_key))
    IN  IF n # "Equal" THEN n
        ELSE IF s # "Equal" THEN s
        ELSE e

-----------------------------------------------------------------------------
Init ==
    /\ sha3 \in [Keys -> Names]
    /\ full_id = None
    /\ pc = "idle"
    /\ start = 0
    /\ end = 0
    /\ sign_keys = None
    /\ draws = <<>>
    /\ sign_gens = 0
    /\ enc_gens = 0
    /\ rejected = 0
    /\ wire = None
    /\ sent = None
    /\ parsed = None
    /\ ordering = None
    /\ replaced = FALSE

\* The locals of a finished within_range call go out of scope.
EndCall ==
    /\ pc' = "idle"
    /\ start' = 0
    /\ end' = 0
    /\ sign_keys' = None
    /\ draws' = <<>>
    /\ sign_gens' = 0
    /\ enc_gens' = 0
    /\ rejected' = 0

\* FullId::new().  A FullId is constructed once and then held.
New ==
    /\ pc = "idle"
    /\ full_id = None
    /\ \E e \in Keys, s \in Keys : full_id' = Some(FullId_new(e, s))
    /\ ordering' = None
    /\ EndCall
    /\ UNCHANGED <<replaced, sha3, wire, sent, parsed>>

\* FullId::with_keys(encrypt_keys, sign_keys): any halves the caller holds
WithKeys ==
    /\ pc = "idle"
    /\ full_id = None
    /\ \E ep \in Keys, es \in SecretKeys, sp \in Keys, ss \in SecretKeys :
          full_id' = Some(with_keys(<<ep, es>>, <<sp, ss>>))
    /\ ordering' = None
    /\ EndCall
    /\ UNCHANGED <<replaced, sha3, wire, sent, parsed>>

-----------------------------------------------------------------------------
\* within_range's test with the upper bound forgotten.
InRange_NoUpper(name, s, e) == name >= s

\* within_range's test with || for &&.
InRange_Or(name, s, e) == name >= s \/ name <= e

\* within_range's test: name >= *start && name <= *end
InRange(name, s, e) == name >= s /\ name <= e

\* FullId::within_range(start, end): entry, and the first gen_keypair().
\* The call is a constructor that reads nothing but its arguments; it is
\* explored as the program's first operation.
WithinRangeCall ==
    /\ pc = "idle"
    /\ full_id = None
    /\ wire = None
    /\ \E s \in Names, e \in Names, k \in Keys :
          /\ start' = s
          /\ end' = e
          /\ sign_keys' = Some(sign_gen_keypair(k))
          /\ draws' = <<k>>
    /\ sign_gens' = 1
    /\ enc_gens' = 0
    /\ rejected' = 0
    /\ pc' = "loop"
    /\ UNCHANGED <<replaced, sha3, full_id, wire, sent, parsed, ordering>>

\* A rejected attempt that gives up and returns what it has.
LoopRejectDraw_GiveUp(k) ==
    /\ pc = "loop"
    /\ ~InRange(name_from_key(sign_keys.val[1]), start, end)
    /\ full_id' = Some(with_keys(box_gen_keypair(k), sign_keys.val))
    /\ enc_gens' = enc_gens + 1
    /\ pc' = "returned"
    /\ ordering' = None
    /\ UNCHANGED <<replaced, sha3, start, end, sign_keys, draws, sign_gens, rejected,
                   wire, sent, parsed>>

\* A rejected attempt that had generated an encryption key pair as well.
LoopRejectDraw_EncEachAttempt(k) ==
    /\ pc = "loop"
    /\ ~InRange(name_from_key(sign_keys.val[1]), start, end)
    /\ sign_keys' = Some(sign_gen_keypair(k))
    /\ enc_gens' = IF enc_gens < MaxDraws THEN enc_gens + 1 ELSE enc_gens
    /\ IF sign_gens < MaxDraws
       THEN /\ sign_gens' = sign_gens + 1
            /\ rejected' = rejected + 1
            /\ draws' = Append(draws, k)
       ELSE /\ UNCHANGED <<sign_gens, rejected>>
            /\ draws' = [draws EXCEPT ![Len(draws)] = k]
    /\ UNCHANGED <<replaced, sha3, full_id, pc, start, end, wire, sent, parsed, ordering>>

\* One rejected attempt of the loop: the test fails and a fresh signing key
\* pair, the generator's outcome k, replaces sign_keys.  The counters stop
\* at MaxDraws, where draws keeps only the latest draw in its last place.
LoopRejectDraw(k) ==
    /\ pc = "loop"
    /\ ~InRange(name_from_key(sign_keys.val[1]), start, end)
    /\ sign_keys' = Some(sign_gen_keypair(k))
    /\ IF sign_gens < MaxDraws
       THEN /\ sign_gens' = sign_gens + 1
            /\ rejected' = rejected + 1
            /\ draws' = Append(draws, k)
       ELSE /\ UNCHANGED <<sign_gens, rejected>>
            /\ draws' = [draws EXCEPT ![Len(draws)] = k]
    /\ UNCHANGED <<replaced, sha3, full_id, pc, start, end, enc_gens, wire, sent,
                   parsed, ordering>>

LoopReject == \E k \in Keys : LoopRejectDraw(k)

\* The accepted attempt: one encryption key pair, with_keys, return.
LoopAccept ==
    /\ pc = "loop"
    /\ InRange(name_from_key(sign_keys.val[1]), start, end)
    /\ \E e \in Keys :
          LET encrypt_keys == box_gen_keypair(e)
          IN  full_id' = Some(with_keys(encrypt_keys, sign_keys.val))
    /\ enc_gens' = enc_gens + 1
    /\ pc' = "returned"
    /\ ordering' = None
    /\ UNCHANGED <<replaced, sha3, start, end, sign_keys, draws, sign_gens, rejected,
                   wire, sent, parsed>>

-----------------------------------------------------------------------------
\* Byte strings a peer can put on the wire: the encoding of every pair of
\* keys, and strings of the wrong length: nothing, one key alone, an
\* encoding short of its last byte, an encoding with a byte appended.
ValidWires == {TupleEncode(e, s) : e \in Keys, s \in Keys}
WireInputs ==
    ValidWires
    \cup {<<>>}
    \cup {KeyBytes(k) : k \in Keys}
    \cup {SubSeq(w, 1, 2 * KeyLen - 1) : w \in ValidWires}
    \cup {w \o <<0>> : w \in ValidWires}

\* serialise(full_id.public_id())
Serialise ==
    /\ pc # "loop"
    /\ full_id.tag = "Some"
    /\ wire' = Some(serialize(full_id.val.public_id))
    /\ sent' = Some(full_id.val.public_id)
    /\ parsed' = None
    /\ ordering' = None
    /\ EndCall
    /\ UNCHANGED <<replaced, sha3, full_id>>

\* Bytes arrive from a peer.
Receive ==
    /\ pc # "loop"
    /\ \E w \in WireInputs : wire' = Some(w)
    /\ sent' = None
    /\ parsed' = None
    /\ ordering' = None
    /\ EndCall
    /\ UNCHANGED <<replaced, sha3, full_id>>

\* deserialise(&wire)
Deserialise ==
    /\ pc # "loop"
    /\ wire.tag = "Some"
    /\ parsed' = Some(deserialize(wire.val))
    /\ ordering' = None
    /\ EndCall
    /\ UNCHANGED <<replaced, sha3, full_id, wire, sent>>

\* *full_id.public_id_mut() = the PublicId that was parsed
ReplacePublicId ==
    /\ pc # "loop"
    /\ full_id.tag = "Some"
    /\ parsed.tag = "Some"
    /\ parsed.val.tag = "Ok"
    /\ full_id' = Some([full_id.val EXCEPT !.public_id = parsed.val.val])
    /\ replaced' = TRUE
    /\ ordering' = None
    /\ EndCall
    /\ UNCHANGED <<sha3, wire, sent, parsed>>

\* full_id.public_id() compared with the parsed PublicId, both ways
Compare ==
    /\ pc # "loop"
    /\ full_id.tag = "Some"
    /\ parsed.tag = "Some"
    /\ parsed.val.tag = "Ok"
    /\ ordering' = Some([ab |-> PublicIdCmp(full_id.val.public_id, parsed.val.val),
                         ba |-> PublicIdCmp(parsed.val.val, full_id.val.public_id)])
    /\ EndCall
    /\ UNCHANGED <<replaced, sha3, full_id, wire, sent, parsed>>

-----------------------------------------------------------------------------
RangeNext == WithinRangeCall \/ LoopReject \/ LoopAccept

Next ==
    \/ New
    \/ WithKeys
    \/ WithinRangeCall
    \/ LoopReject
    \/ LoopAccept
    \/ Serialise
    \/ Receive
    \/ Deserialise
    \/ ReplacePublicId
    \/ Compare

Spec == Init /\ [][Next]_vars

\* One thread inside within_range keeps running, and the key generator
\* eventually yields a key whose name is in the range when there is one.
DrawInRange ==
    \E k \in Keys : sha3[k] >= start /\ sha3[k] <= end /\ LoopRejectDraw(k)

RangeSpec ==
    /\ Init
    /\ [][RangeNext]_vars
    /\ WF_vars(LoopReject)
    /\ WF_vars(LoopAccept)
    /\ SF_vars(DrawInRange)

-----------------------------------------------------------------------------
\* The PublicId values that exist in a state.
PublicIds ==
    (IF full_id.tag = "Some" THEN {full_id.val.public_id} ELSE {})
    \cup (IF sent.tag = "Some" THEN {sent.val} ELSE {})
    \cup (IF parsed.tag = "Some" /\ parsed.val.tag = "Ok"
          THEN {parsed.val.val} ELSE {})

\* C1: whenever within_range(start, end) has returned, the name of the
\* returned identity's public id lies in [start, end], both ends included,
\* whatever keys were drawn and rejected before the accepted one.
RangeContainment ==
    pc = "returned" =>
        /\ full_id.tag = "Some"
        /\ start <= full_id.val.public_id.name
        /\ full_id.val.public_id.name <= end

RangeContainmentWitness ==
    /\ pc = "returned"
    /\ rejected >= 2
    /\ start = end
    /\ full_id.val.public_id.name = start

\* C2: every PublicId that exists has name = hash(public_sign_key): the one
\* in a FullId built by new(), with_keys() or within_range(), every one
\* produced by deserialisation, and the one embedded in a FullId after
\* replacements through public_id_mut().
NameIsHashOfSignKey ==
    \A p \in PublicIds : p.name = sha3[p.public_sign_key]

NameIsHashOfSignKeyWitness ==
    /\ replaced
    /\ sent = None
    /\ parsed.tag = "Some"
    /\ parsed.val.tag = "Ok"
    /\ full_id.val.public_id = parsed.val.val
    /\ sha3[parsed.val.val.public_sign_key]
          # sha3[parsed.val.val.public_encrypt_key]

\* C3: deserialising the serialisation of a PublicId succeeds and yields a
\* PublicId equal to it in name, public signing key and public encryption
\* key.
RoundTrip ==
    (sent.tag = "Some" /\ parsed.tag = "Some") =>
        /\ parsed.val.tag = "Ok"
        /\ parsed.val.val.name = sent.val.name
        /\ parsed.val.val.public_sign_key = sent.val.public_sign_key
        /\ parsed.val.val.public_encrypt_key = sent.val.public_encrypt_key

RoundTripWitness ==
    /\ sent.tag = "Some"
    /\ parsed.tag = "Some"
    /\ sent.val.public_sign_key # sent.val.public_encrypt_key
    /\ sha3[sent.val.public_sign_key] # sha3[sent.val.public_encrypt_key]

\* C4: the order on PublicId is decided by the name whenever the names
\* differ, however the key bytes compare: a.name < b.name gives a < b and
\* b > a, and with distinct names exactly one of a < b, a > b holds.
NameDominatesOrder ==
    ordering.tag = "Some" =>
        LET a == full_id.val.public_id
            b == parsed.val.val
            a_lt_b == ordering.val.ab = "Less"
            a_gt_b == ordering.val.ab = "Greater"
        IN  /\ a.name < b.name => (a_lt_b /\ ordering.val.ba = "Greater")
            /\ a.name > b.name => (a_gt_b /\ ordering.val.ba = "Less")
            /\ a.name # b.name => (a_lt_b # a_gt_b)

NameDominatesOrderWitness ==
    /\ ordering.tag = "Some"
    /\ full_id.val.public_id.name < parsed.val.val.name
    /\ parsed.val.val.public_sign_key < full_id.val.public_id.public_sign_key
    /\ parsed.val.val.public_encrypt_key
          < full_id.val.public_id.public_encrypt_key

\* C5: deserialising a byte string of the wrong length fails with
\* MalformedKeyData: the result is that error and never a PublicId.
WrongLengthRejected ==
    (wire.tag = "Some" /\ parsed.tag = "Some" /\ Len(wire.val) # 2 * KeyLen) =>
        parsed.val = Err("MalformedKeyData")

WrongLengthRejectedWitness ==
    /\ wire.tag = "Some"
    /\ parsed.tag = "Some"
    /\ Len(wire.val) = 2 * KeyLen - 1
    /\ full_id.tag = "Some"

\* C6: the serialised form of a PublicId is exactly its public encryption
\* key followed by its public signing key, with no name and no private key
\* in it; the name of a decoded PublicId is the hash of the signing key on
\* the wire, and any two PublicIds with the same signing key have the same
\* name.
WireIsKeyPairOnly ==
    /\ (sent.tag = "Some" /\ wire.tag = "Some") =>
          /\ Len(wire.val) = 2 * KeyLen
          /\ SubSeq(wire.val, 1, KeyLen) = KeyBytes(sent.val.public_encrypt_key)
          /\ SubSeq(wire.val, KeyLen + 1, 2 * KeyLen)
                = KeyBytes(sent.val.public_sign_key)
    /\ (wire.tag = "Some" /\ parsed.tag = "Some" /\ parsed.val.tag = "Ok") =>
          /\ KeyBytes(parsed.val.val.public_sign_key)
                = SubSeq(wire.val, KeyLen + 1, 2 * KeyLen)
          /\ parsed.val.val.name = sha3[parsed.val.val.public_sign_key]
    /\ \A p \in PublicIds, q \in PublicIds :
          p.public_sign_key = q.public_sign_key => p.name = q.name

WireIsKeyPairOnlyWitness ==
    /\ sent.tag = "Some"
    /\ parsed.tag = "Some"
    /\ parsed.val.tag = "Ok"
    /\ full_id.tag = "Some"
    /\ full_id.val.public_id = sent.val
    /\ full_id.val.private_sign_key.secret_of # sent.val.public_sign_key
    /\ sent.val.public_encrypt_key # sent.val.public_sign_key
    /\ sent.val.name # sha3[sent.val.public_encrypt_key]

\* C7: in every FullId the private signing key and the private encryption
\* key are the counterparts of the public keys in its public id.
PrivateKeysMatchPublic ==
    full_id.tag = "Some" =>
        /\ full_id.val.private_sign_key.secret_of
              = full_id.val.public_id.public_sign_key
        /\ full_id.val.private_encrypt_key.secret_of
              = full_id.val.public_id.public_encrypt_key

\* C8: in one call of within_range no encryption key pair is generated
\* while attempts are being rejected, exactly one has been generated when
\* the call returns, and a call that rejected n draws generated n + 1
\* signing key pairs.
EncryptKeysOnceAfterAccept ==
    /\ pc = "loop" => (enc_gens = 0 /\ sign_gens = rejected + 1)
    /\ pc = "returned" => (enc_gens = 1 /\ sign_gens = rejected + 1)
    /\ pc # "idle" => (sign_gens = Len(draws)
                        /\ sign_keys.val[1] = draws[Len(draws)])

EncryptKeysOnceAfterAcceptWitness ==
    /\ pc = "returned"
    /\ rejected = 2
    /\ sign_gens = 3
    /\ enc_gens = 1

\* C9: within_range runs until success: it returns only the identity built
\* from the first drawn signing key whose name is in [start, end], after
\* however many rejected draws, and when start <= end and the generator
\* eventually yields such a key the call eventually returns.
RunsUntilSuccess ==
    /\ [](pc = "returned" =>
            /\ \A i \in 1..(Len(draws) - 1) :
                  ~(start <= sha3[draws[i]] /\ sha3[draws[i]] <= end)
            /\ start <= sha3[draws[Len(draws)]]
            /\ sha3[draws[Len(draws)]] <= end
            /\ full_id.val.public_id.public_sign_key = draws[Len(draws)]
            /\ full_id.val.private_sign_key = sign_keys.val[2])
    /\ (pc = "loop" /\ start <= end
          /\ \E k \in Keys : start <= sha3[k] /\ sha3[k] <= end)
       ~> (pc = "returned")

RunsUntilSuccessWitness ==
    /\ pc = "returned"
    /\ rejected >= 2
    /\ start < end

\* C10: called with start > end, within_range never returns and reports no
\* error: it stays in its loop, drawing signing key pairs without end and
\* generating no encryption key pair.
ReversedRangeNeverReturns ==
    /\ []((pc # "idle" /\ start > end) =>
            (pc = "loop" /\ enc_gens = 0 /\ full_id = None))
    /\ (pc = "loop" /\ start > end)
       ~> (pc = "loop" /\ start > end /\ sign_gens = MaxDraws)

ReversedRangeNeverReturnsWitness ==
    /\ pc = "loop"
    /\ start > end
    /\ sign_gens = MaxDraws
    /\ rejected = MaxDraws - 1

====
